---- MODULE Spec2Model ----
(***************************************************************************)
(* The calendar projection of the DeOrganized frontend.                    *)
(*                                                                         *)
(*   EventCalendar.tsx     projectRecurringDates, calendarItems (useMemo), *)
(*                         getItemsForDate, the loadData effect            *)
(*   RealTimeCalendar.tsx  getEventsForDay                                 *)
(*   AuthContext.tsx       AuthProvider: the session state and its actions *)
(*   useStacksAuth.ts      the wallet state, signIn and its polling        *)
(*                                                                         *)
(* The three parts are three state machines over one set of variables:     *)
(* each leaves the variables of the other two as they are at the start.    *)
(*                                                                         *)
(* Time.  A Date is [valid, t]: t counts the seconds of local time since   *)
(* 00:00:00 of day 0, and day 0 is Sunday 2024-06-02, so that getDay of a  *)
(* date is its day number modulo 7 (0 = Sunday) and Monday 2024-06-03 is   *)
(* day 1.  Milliseconds are folded into the seconds.  Local time has no    *)
(* daylight-saving jump inside the modelled days.                          *)
(*                                                                         *)
(* Strings that the code inspects character by character (the time value,  *)
(* titles, the search query) are sequences of one-character strings.  A    *)
(* full ISO timestamp is the record of what the platform's Date parser     *)
(* makes of it (kind "iso", its instant t); it is longer than 8 characters *)
(* and contains ':'.                                                       *)
(***************************************************************************)
EXTENDS Integers, Sequences, FiniteSets, TLC

VARIABLES
    shows,          \* useState<Show[]>            EventCalendar.tsx:42
    events,         \* useState<Event[]>           EventCalendar.tsx:43
    isLoading,      \* useState(true)              EventCalendar.tsx:44
    filter,         \* useState<ContentFilter>     EventCalendar.tsx:39
    searchQuery,    \* useState('')                EventCalendar.tsx:40
    calendarItems,  \* the memoised item list      EventCalendar.tsx:107
    renderedAt,     \* the clock as read by the render that made calendarItems
    now,            \* the wall clock, what new Date() returns
    \* AuthProvider and useStacksAuth
    isWalletConnected,  \* useStacksAuth isAuthenticated     useStacksAuth.ts:17
    userData,           \* useState<UserData | null>         useStacksAuth.ts:18
    walletStored,       \* the connection @stacks/connect keeps (isConnected)
    backendUser,        \* useState<User | null>             AuthContext.tsx:51
    accessToken,        \* useState<string | null>           AuthContext.tsx:52
    isAuthenticating,   \* useState(false)                   AuthContext.tsx:53
    authError,          \* useState<string | null>           AuthContext.tsx:54
    storage,            \* localStorage: access_token, user_profile
    requests,           \* the backend requests in flight, oldest first
    reloadPending,      \* window.location.reload() was called
    checkPending,       \* checkConnection of the mount effect is in flight
    loggedOut,          \* logout ran and no call started after it has succeeded
    \* signIn's polling
    pollCount,          \* let pollCount = 0                 useStacksAuth.ts:102
    pollInterval,       \* the interval is set (not cleared) useStacksAuth.ts:105
    pollChecks,         \* the ticks awaiting isConnected(), by their number
    capturedAuthenticated,  \* isAuthenticated as the closure of signIn holds it
    connection,         \* what the wallet has done: "pending", "connected", "cancelled"
    pollReloads         \* the reloads polling asked for, with what the tick detected

calendarVars == <<shows, events, isLoading, filter, searchQuery, calendarItems, renderedAt, now>>
authVars == <<isWalletConnected, userData, walletStored, backendUser, accessToken,
              isAuthenticating, authError, storage, requests, reloadPending,
              checkPending, loggedOut>>
pollVars == <<pollCount, pollInterval, pollChecks, capturedAuthenticated, connection,
              pollReloads>>
vars == <<calendarVars, authVars, pollVars>>

\* AuthProvider before anything is stored or asked for
AuthAtRest ==
    /\ isWalletConnected = FALSE
    /\ userData = "null"
    /\ walletStored = FALSE
    /\ backendUser = "null"
    /\ accessToken = "null"
    /\ isAuthenticating = FALSE
    /\ authError = "null"
    /\ storage = [token |-> "null", user |-> "null"]
    /\ requests = <<>>
    /\ reloadPending = FALSE
    /\ checkPending = FALSE
    /\ loggedOut = FALSE

\* signIn not called
PollAtRest ==
    /\ pollCount = 0
    /\ pollInterval = FALSE
    /\ pollChecks = {}
    /\ capturedAuthenticated = FALSE
    /\ connection = "pending"
    /\ pollReloads = <<>>

---------------------------------------------------------------------------
(* Bounds of the model.                                                    *)

\* the clock runs over the days 0..MaxDay
MaxDay == 1
\* most entries, shows and events together, of a load drawn from the core records
MaxEntries == 2

---------------------------------------------------------------------------
(* Dates (the platform's Date, in local time).                             *)

DaySeconds == 24 * 60 * 60

\* Number(...) of a string that is not numeric; the modelled strings carry
\* no sign, so no numeric string converts to a negative number.
NaN == 0 - 1

InvalidDate == [valid |-> FALSE, t |-> 0]
MkDate(day, hh, mm, ss) ==
    [valid |-> TRUE, t |-> day * DaySeconds + hh * 3600 + mm * 60 + ss]

DayOf(date) == date.t \div DaySeconds
getDay(date) == DayOf(date) % 7
getHours(date) == (date.t % DaySeconds) \div 3600
getMinutes(date) == (date.t % 3600) \div 60
getSeconds(date) == date.t % 60
getTime(date) == IF date.valid THEN date.t ELSE NaN

\* date.setDate(date.getDate() + d)
addDays(date, d) == [date EXCEPT !.t = @ + d * DaySeconds]

\* date.setHours(hours, minutes, 0, 0): a NaN argument makes the date invalid,
\* an hour beyond 23 or a minute beyond 59 rolls over into the next unit.
setHours(date, hours, minutes) ==
    IF ~date.valid \/ hours = NaN \/ minutes = NaN
    THEN InvalidDate
    ELSE [valid |-> TRUE, t |-> DayOf(date) * DaySeconds + hours * 3600 + minutes * 60]

\* date.toDateString(): one string per calendar day, "Invalid Date" (-1) otherwise
toDateString(date) == IF date.valid THEN DayOf(date) ELSE 0 - 1

---------------------------------------------------------------------------
(* Strings.                                                                *)

Digits == <<"0", "1", "2", "3", "4", "5", "6", "7", "8", "9">>
IsDigit(c) == \E i \in 1..10 : Digits[i] = c
DigitValue(c) == (CHOOSE i \in 1..10 : Digits[i] = c) - 1

RECURSIVE DecimalValue(_)
DecimalValue(s) ==
    IF s = <<>> THEN 0
    ELSE DecimalValue(SubSeq(s, 1, Len(s) - 1)) * 10 + DigitValue(s[Len(s)])

\* Number(s) for a string of the model's alphabet (digits, ':', letters other
\* than those of a numeric literal): "" is 0, a run of digits its value, else NaN
Number(s) ==
    IF \A i \in 1..Len(s) : IsDigit(s[i]) THEN DecimalValue(s) ELSE NaN

includes(s, c) == \E i \in 1..Len(s) : s[i] = c

\* s.split(c): the pieces between the occurrences of c
RECURSIVE split(_, _)
split(s, c) ==
    IF ~includes(s, c) THEN <<s>>
    ELSE LET k == CHOOSE i \in 1..Len(s) :
                      s[i] = c /\ \A j \in 1..(i - 1) : s[j] # c
         IN  <<SubSeq(s, 1, k - 1)>> \o split(SubSeq(s, k + 1, Len(s)), c)

\* array destructuring [hours, minutes]: a missing element is undefined,
\* and setHours turns undefined into NaN
ElementOrNaN(parts, i) == IF i <= Len(parts) THEN Number(parts[i]) ELSE NaN

toLowerCase(s) ==
    [i \in 1..Len(s) |->
        CASE s[i] = "N" -> "n"
          [] s[i] = "J" -> "j"
          [] s[i] = "A" -> "a"
          [] s[i] = "T" -> "t"
          [] OTHER -> s[i]]

\* s.includes(q) for strings: q occurs in s as a substring ("" always does)
includesString(s, q) ==
    \E i \in 0..(Len(s) - Len(q)) : SubSeq(s, i + 1, i + Len(q)) = q

---------------------------------------------------------------------------
(* Field values of the records the API returns.                            *)

\* string | null fields: kind "null" is null (or undefined), "text" a string
\* given by its characters, "iso" a full timestamp given by its instant
NullTime == [kind |-> "null", chars |-> <<>>, t |-> 0]
Text(chars) == [kind |-> "text", chars |-> chars, t |-> 0]
Iso(day, hh, mm, ss) ==
    [kind |-> "iso", chars |-> <<>>, t |-> day * DaySeconds + hh * 3600 + mm * 60 + ss]

\* JavaScript truthiness of a string | null value: null and "" are falsy
Truthy(v) == v.kind = "iso" \/ (v.kind = "text" /\ v.chars # <<>>)

\* a || b
Or(a, b) == IF Truthy(a) THEN a ELSE b

\* number | null fields
NullDay == [null |-> TRUE, val |-> 0]
Day(n) == [null |-> FALSE, val |-> n]

\* new Date(value) and parseISO(value) of a string value: a full timestamp
\* gives its instant; the short strings of the model (clock times, words)
\* are no timestamps and give an invalid date
newDate(v) == IF v.kind = "iso" THEN [valid |-> TRUE, t |-> v.t] ELSE InvalidDate

---------------------------------------------------------------------------
(* EventCalendar.tsx: projectRecurringDates.                               *)

\* for (let d = 0; d < 28; d++)
ProjectionDays == 28
\* scheduledTime.length <= 8
BareTimeMaxLen == 8

\* mutants: the conversion without the wrap of Sunday; no conversion at all
frontendDayNoWrap(dayOfWeek) == dayOfWeek + 1
frontendDayUnconverted(dayOfWeek) == dayOfWeek

\* Backend: 0=Monday..6=Sunday -> JS: 1=Monday..6=Saturday, 0=Sunday
frontendDay(dayOfWeek) == IF dayOfWeek = 6 THEN 0 ELSE dayOfWeek + 1

\* mutants: a weekend of Saturday alone; weekdays that run through Saturday
shouldAddSaturdayOnly(recurrenceType, dayOfWeek, dow) ==
    IF recurrenceType = "DAILY" THEN TRUE
    ELSE IF recurrenceType = "WEEKDAYS" THEN dow >= 1 /\ dow <= 5
    ELSE IF recurrenceType = "WEEKENDS" THEN dow = 6
    ELSE IF recurrenceType = "SPECIFIC_DAY" /\ ~dayOfWeek.null
         THEN dow = frontendDay(dayOfWeek.val)
    ELSE FALSE
shouldAddThroughSaturday(recurrenceType, dayOfWeek, dow) ==
    IF recurrenceType = "DAILY" THEN TRUE
    ELSE IF recurrenceType = "WEEKDAYS" THEN dow >= 1 /\ dow <= 6
    ELSE IF recurrenceType = "WEEKENDS" THEN dow = 0 \/ dow = 6
    ELSE IF recurrenceType = "SPECIFIC_DAY" /\ ~dayOfWeek.null
         THEN dow = frontendDay(dayOfWeek.val)
    ELSE FALSE

\* the rule test of one day, dow = date.getDay()
shouldAdd(recurrenceType, dayOfWeek, dow) ==
    IF recurrenceType = "DAILY" THEN TRUE
    ELSE IF recurrenceType = "WEEKDAYS" THEN dow >= 1 /\ dow <= 5
    ELSE IF recurrenceType = "WEEKENDS" THEN dow = 0 \/ dow = 6
    ELSE IF recurrenceType = "SPECIFIC_DAY" /\ ~dayOfWeek.null
         THEN dow = frontendDay(dayOfWeek.val)
    ELSE FALSE

\* mutant: the scheduled time is never applied
withoutScheduledTime(date, scheduledTime) == date

\* mutant: a clock time is a string of fewer than 8 characters
withScheduledTimeShort(date, scheduledTime) ==
    IF ~Truthy(scheduledTime) THEN date
    ELSE IF scheduledTime.kind = "text" /\ includes(scheduledTime.chars, ":")
            /\ Len(scheduledTime.chars) < BareTimeMaxLen
         THEN LET parts == split(scheduledTime.chars, ":")
              IN  setHours(date, ElementOrNaN(parts, 1), ElementOrNaN(parts, 2))
    ELSE LET time == newDate(scheduledTime)
         IN  IF time.valid THEN setHours(date, getHours(time), getMinutes(time))
             ELSE date

\* the time of day put on a matching day; a date that gets no time keeps the
\* time of day of now, of which it is a copy
withScheduledTime(date, scheduledTime) ==
    IF ~Truthy(scheduledTime) THEN date
    ELSE IF scheduledTime.kind = "text" /\ includes(scheduledTime.chars, ":")
            /\ Len(scheduledTime.chars) <= BareTimeMaxLen
         THEN LET parts == split(scheduledTime.chars, ":")
              IN  setHours(date, ElementOrNaN(parts, 1), ElementOrNaN(parts, 2))
    ELSE LET time == newDate(scheduledTime)
         IN  IF time.valid THEN setHours(date, getHours(time), getMinutes(time))
             ELSE date

\* mutant: the loop starts at tomorrow (d = 1..28)
projectFromTomorrow(recurrenceType, dayOfWeek, scheduledTime, clock) ==
    LET days == [i \in 1..ProjectionDays |-> addDays(clock, i)]
        matching == SelectSeq(days,
                        LAMBDA date : shouldAdd(recurrenceType, dayOfWeek, getDay(date)))
    IN  [i \in 1..Len(matching) |-> withScheduledTime(matching[i], scheduledTime)]

\* mutant: the loop runs through the day the window ends on (d = 0..28)
projectThroughEndDay(recurrenceType, dayOfWeek, scheduledTime, clock) ==
    LET days == [i \in 1..(ProjectionDays + 1) |-> addDays(clock, i - 1)]
        matching == SelectSeq(days,
                        LAMBDA date : shouldAdd(recurrenceType, dayOfWeek, getDay(date)))
    IN  [i \in 1..Len(matching) |-> withScheduledTime(matching[i], scheduledTime)]

\* mutant: dates before the reading of the clock are left out
projectFutureOnly(recurrenceType, dayOfWeek, scheduledTime, clock) ==
    LET days == [i \in 1..ProjectionDays |-> addDays(clock, i - 1)]
        matching == SelectSeq(days,
                        LAMBDA date : shouldAdd(recurrenceType, dayOfWeek, getDay(date)))
        timed == [i \in 1..Len(matching) |-> withScheduledTime(matching[i], scheduledTime)]
    IN  SelectSeq(timed, LAMBDA date : getTime(date) >= getTime(clock))

\* mutant: the loop runs over three weeks (d = 0..20)
projectThreeWeeks(recurrenceType, dayOfWeek, scheduledTime, clock) ==
    LET days == [i \in 1..(ProjectionDays - 7) |-> addDays(clock, i - 1)]
        matching == SelectSeq(days,
                        LAMBDA date : shouldAdd(recurrenceType, dayOfWeek, getDay(date)))
    IN  [i \in 1..Len(matching) |-> withScheduledTime(matching[i], scheduledTime)]

\* mutant: a matching day is pushed twice
projectTwicePerDay(recurrenceType, dayOfWeek, scheduledTime, clock) ==
    LET days == [i \in 1..(2 * ProjectionDays) |-> addDays(clock, (i - 1) \div 2)]
        matching == SelectSeq(days,
                        LAMBDA date : shouldAdd(recurrenceType, dayOfWeek, getDay(date)))
    IN  [i \in 1..Len(matching) |-> withScheduledTime(matching[i], scheduledTime)]

projectRecurringDates(recurrenceType, dayOfWeek, scheduledTime, clock) ==
    LET days == [i \in 1..ProjectionDays |-> addDays(clock, i - 1)]
        matching == SelectSeq(days,
                        LAMBDA date : shouldAdd(recurrenceType, dayOfWeek, getDay(date)))
    IN  [i \in 1..Len(matching) |-> withScheduledTime(matching[i], scheduledTime)]

---------------------------------------------------------------------------
(* EventCalendar.tsx: calendarItems.                                       *)

CalendarItem(entity, type, date) ==
    [id |-> entity.id, type |-> type, date |-> date,
     title |-> entity.title, creator |-> entity.creator]

\* mutants: the find that does not compare the id; that does not compare the type
findItemAnyId(items, id, type, d) ==
    \E k \in 1..Len(items) :
        /\ items[k].type = type
        /\ toDateString(items[k].date) = toDateString(d)
findItemAnyType(items, id, type, d) ==
    \E k \in 1..Len(items) :
        /\ items[k].id = id
        /\ toDateString(items[k].date) = toDateString(d)

\* items.find(i => i.id === id && i.type === type &&
\*                 i.date.toDateString() === d.toDateString())
findItem(items, id, type, d) ==
    \E k \in 1..Len(items) :
        /\ items[k].id = id
        /\ items[k].type = type
        /\ toDateString(items[k].date) = toDateString(d)

\* projected.forEach(d => { if (!items.find(...)) items.push(...) }): the
\* k-th date is pushed unless an item found before the loop, or one the loop
\* pushed (an earlier date of the same day), has its id, type and day
pushProjected(items, entity, type, dates) ==
    LET pushed == SelectSeq([k \in 1..Len(dates) |-> k],
                      LAMBDA k :
                          /\ ~findItem(items, entity.id, type, dates[k])
                          /\ \A j \in 1..(k - 1) :
                                 toDateString(dates[j]) # toDateString(dates[k]))
    IN  items \o [n \in 1..Len(pushed) |-> CalendarItem(entity, type, dates[pushed[n]])]

\* mutant: a show is projected whenever it names a rule
pushShowByRule(items, show, clock) ==
    LET oneOff == IF ~show.is_recurring /\ Truthy(show.scheduled_time)
                  THEN Append(items, CalendarItem(show, "show", newDate(show.scheduled_time)))
                  ELSE items
    IN  IF show.recurrence_type # "null"
        THEN pushProjected(oneOff, show, "show",
                 projectRecurringDates(show.recurrence_type, show.day_of_week,
                                       show.scheduled_time, clock))
        ELSE oneOff

\* the body of shows.forEach
pushShow(items, show, clock) ==
    LET oneOff == IF ~show.is_recurring /\ Truthy(show.scheduled_time)
                  THEN Append(items, CalendarItem(show, "show", newDate(show.scheduled_time)))
                  ELSE items
    IN  IF show.is_recurring /\ show.recurrence_type # "null"
        THEN pushProjected(oneOff, show, "show",
                 projectRecurringDates(show.recurrence_type, show.day_of_week,
                                       show.scheduled_time, clock))
        ELSE oneOff

\* mutant: the one-off push does not look at is_recurring
pushEventAlwaysOneOff(items, event, clock) ==
    LET startDate == Or(event.start_datetime, event.start_date)
        oneOff == IF Truthy(startDate)
                  THEN Append(items, CalendarItem(event, "event", newDate(startDate)))
                  ELSE items
    IN  IF event.is_recurring /\ event.recurrence_type # "null"
        THEN pushProjected(oneOff, event, "event",
                 projectRecurringDates(event.recurrence_type, event.day_of_week,
                     Or(event.scheduled_time, Or(event.start_datetime, event.start_date)),
                     clock))
        ELSE oneOff

\* mutant: the projection is given scheduled_time alone
pushEventScheduledTimeOnly(items, event, clock) ==
    LET startDate == Or(event.start_datetime, event.start_date)
        oneOff == IF ~event.is_recurring /\ Truthy(startDate)
                  THEN Append(items, CalendarItem(event, "event", newDate(startDate)))
                  ELSE items
    IN  IF event.is_recurring /\ event.recurrence_type # "null"
        THEN pushProjected(oneOff, event, "event",
                 projectRecurringDates(event.recurrence_type, event.day_of_week,
                     event.scheduled_time, clock))
        ELSE oneOff

\* the body of events.forEach
pushEvent(items, event, clock) ==
    LET startDate == Or(event.start_datetime, event.start_date)
        oneOff == IF ~event.is_recurring /\ Truthy(startDate)
                  THEN Append(items, CalendarItem(event, "event", newDate(startDate)))
                  ELSE items
    IN  IF event.is_recurring /\ event.recurrence_type # "null"
        THEN pushProjected(oneOff, event, "event",
                 projectRecurringDates(event.recurrence_type, event.day_of_week,
                     Or(event.scheduled_time, Or(event.start_datetime, event.start_date)),
                     clock))
        ELSE oneOff

RECURSIVE pushShows(_, _, _, _)
pushShows(items, list, k, clock) ==
    IF k > Len(list) THEN items
    ELSE pushShows(pushShow(items, list[k], clock), list, k + 1, clock)

RECURSIVE pushEvents(_, _, _, _)
pushEvents(items, list, k, clock) ==
    IF k > Len(list) THEN items
    ELSE pushEvents(pushEvent(items, list[k], clock), list, k + 1, clock)

\* merging two sorted runs, the left one first among equal times
RECURSIVE merge(_, _, _, _, _)
merge(a, b, i, j, acc) ==
    IF i > Len(a) THEN acc \o SubSeq(b, j, Len(b))
    ELSE IF j > Len(b) THEN acc \o SubSeq(a, i, Len(a))
    ELSE IF getTime(a[i].date) - getTime(b[j].date) <= 0
         THEN merge(a, b, i + 1, j, Append(acc, a[i]))
         ELSE merge(a, b, i, j + 1, Append(acc, b[j]))

\* items.sort((a, b) => a.date.getTime() - b.date.getTime()): Array.prototype.sort
\* is stable, so the result is the one arrangement in ascending time in which
\* items of equal time keep their order.  (Every date of the modelled inputs
\* is valid; the comparator is then a consistent one.)
RECURSIVE sortByDate(_)
sortByDate(items) ==
    IF Len(items) <= 1 THEN items
    ELSE LET half == Len(items) \div 2
         IN  merge(sortByDate(SubSeq(items, 1, half)),
                   sortByDate(SubSeq(items, half + 1, Len(items))), 1, 1, <<>>)

\* items.filter(i => title or creator contains the query, case-insensitively)
matchesSearch(item, query) ==
    \/ includesString(toLowerCase(item.title), toLowerCase(query))
    \/ includesString(toLowerCase(item.creator), toLowerCase(query))

\* mutant: both lists are gone through whatever the filter is
collectItemsUnfiltered(showList, eventList, contentFilter, clock) ==
    pushEvents(pushShows(<<>>, showList, 1, clock), eventList, 1, clock)

\* the useMemo body up to the search: the items in the order they are pushed
collectItems(showList, eventList, contentFilter, clock) ==
    LET fromShows == IF contentFilter = "all" \/ contentFilter = "shows"
                     THEN pushShows(<<>>, showList, 1, clock) ELSE <<>>
    IN  IF contentFilter = "all" \/ contentFilter = "events"
        THEN pushEvents(fromShows, eventList, 1, clock) ELSE fromShows

\* the useMemo body: what calendarItems is after a render at time clock
computeCalendarItems(showList, eventList, contentFilter, query, clock) ==
    LET items == collectItems(showList, eventList, contentFilter, clock)
    IN  IF query # <<>>
        THEN SelectSeq(items, LAMBDA i : matchesSearch(i, query))
        ELSE sortByDate(items)

\* getItemsForDate(date)
getItemsForDate(date) ==
    SelectSeq(calendarItems, LAMBDA item : toDateString(item.date) = toDateString(date))

---------------------------------------------------------------------------
(* RealTimeCalendar.tsx: getEventsForDay.  The component gets the lists as *)
(* props; the model hands it the lists EventCalendar holds.                *)

\* isSameDay(parseISO(value), date)
isSameDay(a, b) == a.valid /\ b.valid /\ DayOf(a) = DayOf(b)

\* mutant: the day of a show is compared unconverted
showFrontendDayUnconverted(dayOfWeek) == dayOfWeek

\* Convert: backend 0-6 (Mon-Sun) to frontend 1-6,0 (Mon-Sun), for a show
showFrontendDay(dayOfWeek) == IF dayOfWeek = 6 THEN 0 ELSE dayOfWeek + 1
\* the same conversion, for an event
eventFrontendDay(dayOfWeek) == IF dayOfWeek = 6 THEN 0 ELSE dayOfWeek + 1

showOnDay(show, date) ==
    LET dayOfWeek == getDay(date)
    IN  IF ~show.is_recurring
        THEN IF ~Truthy(show.scheduled_time) THEN FALSE
             ELSE isSameDay(newDate(show.scheduled_time), date)
        ELSE CASE show.recurrence_type = "DAILY" -> TRUE
               [] show.recurrence_type = "WEEKDAYS" -> dayOfWeek >= 1 /\ dayOfWeek <= 5
               [] show.recurrence_type = "WEEKENDS" -> dayOfWeek = 0 \/ dayOfWeek = 6
               [] show.recurrence_type = "SPECIFIC_DAY" ->
                      IF show.day_of_week.null THEN FALSE
                      ELSE dayOfWeek = showFrontendDay(show.day_of_week.val)
               [] OTHER -> FALSE

eventOnDay(event, date) ==
    LET dayOfWeek == getDay(date)
        startDt == Or(event.start_datetime, event.start_date)
    IN  IF ~event.is_recurring
        THEN IF ~Truthy(startDt) THEN FALSE
             ELSE isSameDay(newDate(startDt), date)
        ELSE CASE event.recurrence_type = "DAILY" -> TRUE
               [] event.recurrence_type = "WEEKDAYS" -> dayOfWeek >= 1 /\ dayOfWeek <= 5
               [] event.recurrence_type = "WEEKENDS" -> dayOfWeek = 0 \/ dayOfWeek = 6
               [] event.recurrence_type = "SPECIFIC_DAY" ->
                      IF event.day_of_week.null THEN FALSE
                      ELSE dayOfWeek = eventFrontendDay(event.day_of_week.val)
               [] OTHER -> FALSE

getEventsForDay(date) ==
    [shows |-> SelectSeq(shows, LAMBDA show : showOnDay(show, date)),
     events |-> SelectSeq(events, LAMBDA event : eventOnDay(event, date))]

---------------------------------------------------------------------------
(* The records the API returns that the model draws from.                  *)

Show(id, title, creator, recurring, type, day, time) ==
    [id |-> id, title |-> title, creator |-> creator,
     is_recurring |-> recurring, recurrence_type |-> type,
     day_of_week |-> day, scheduled_time |-> time]

Event(id, title, creator, recurring, type, day, time, startDatetime, startDate) ==
    [id |-> id, title |-> title, creator |-> creator,
     is_recurring |-> recurring, recurrence_type |-> type,
     day_of_week |-> day, scheduled_time |-> time,
     start_datetime |-> startDatetime, start_date |-> startDate]

News == <<"N", "e", "w", "s">>
Jam == <<"J", "a", "m">>
Ann == <<"a", "n", "n">>
Tom == <<"T", "o", "m">>

\* "18:30", "09:15:00" (8 characters), a timestamp at 20:45, a word, ""
T1830 == Text(<<"1", "8", ":", "3", "0">>)
T091500 == Text(<<"0", "9", ":", "1", "5", ":", "0", "0">>)
IsoTime == Iso(3, 20, 45, 0)
Word == Text(<<"n", "o", "o", "n">>)
Empty == Text(<<>>)

RecurrenceTypes == {"DAILY", "WEEKDAYS", "WEEKENDS", "SPECIFIC_DAY", "MONTHLY", "null"}
DayValues == {NullDay} \cup {Day(n) : n \in (0 - 1)..7}

\* timestamps: Tuesday 2024-06-04 at 18:30, the time of day of the recurring
\* records; one before every reading of the clock; one beyond every window
OneOffTimes == {Iso(2, 18, 30, 0), Iso(0, 8, 0, 15), Iso(60, 18, 30, 0)}

\* one recurring show per rule and day value, at "18:30"
RuleShows ==
    {Show(1, News, Ann, TRUE, type, NullDay, T1830) : type \in RecurrenceTypes}
    \cup {Show(1, News, Ann, TRUE, "SPECIFIC_DAY", day, T1830) : day \in DayValues}

\* one recurring show per kind of time value
TimeShows ==
    {Show(1, News, Ann, TRUE, rule[1], rule[2], time) :
        rule \in {<<"DAILY", NullDay>>, <<"SPECIFIC_DAY", Day(0)>>, <<"SPECIFIC_DAY", Day(6)>>},
        time \in {NullTime, Empty, T091500, IsoTime, Word}}

\* one-off shows, with and without recurrence fields left set
OneOffShows ==
    {Show(1, News, Ann, FALSE, "null", NullDay, time) : time \in OneOffTimes \cup {NullTime}}
    \cup {Show(1, News, Ann, FALSE, "DAILY", Day(0), Iso(2, 18, 30, 0))}

\* recurring shows that name no rule but carry a time
NoRuleShows ==
    {Show(1, News, Ann, TRUE, "null", NullDay, time) : time \in {T1830, Iso(2, 18, 30, 0)}}

ShowPool == RuleShows \cup TimeShows \cup OneOffShows \cup NoRuleShows

\* the shows that lists of several entries are made of: a show on every
\* weekday and one on Tuesdays at the same time of day, and a one-off show
\* with the id of the first, on a Tuesday at that time
CoreShows ==
    {Show(1, News, Ann, TRUE, "WEEKDAYS", NullDay, T1830),
     Show(2, Jam, Tom, TRUE, "SPECIFIC_DAY", Day(1), T1830),
     Show(1, News, Ann, FALSE, "null", NullDay, Iso(2, 18, 30, 0))}

RuleEvents ==
    {Event(1, Jam, Tom, TRUE, type, NullDay, T1830, NullTime, NullTime) :
        type \in {"DAILY", "WEEKDAYS", "WEEKENDS", "null"}}
    \cup {Event(1, Jam, Tom, TRUE, "SPECIFIC_DAY", day, T1830, NullTime, NullTime) :
            day \in {NullDay, Day(0), Day(6)}}

\* events that take their time from start_datetime or start_date
TimeEvents ==
    {Event(1, Jam, Tom, recurring, "DAILY", NullDay, NullTime, dt[1], dt[2]) :
        recurring \in BOOLEAN,
        dt \in {<<NullTime, NullTime>>, <<IsoTime, NullTime>>,
                <<NullTime, Iso(2, 0, 0, 0)>>, <<Empty, Iso(2, 0, 0, 0)>>}}

\* recurring events that name no rule but carry a start timestamp
NoRuleEvents ==
    {Event(1, Jam, Tom, TRUE, "null", NullDay, NullTime, dt[1], dt[2]) :
        dt \in {<<IsoTime, NullTime>>, <<NullTime, Iso(2, 0, 0, 0)>>}}

EventPool == RuleEvents \cup TimeEvents \cup NoRuleEvents

CoreEvents ==
    {Event(1, News, Ann, TRUE, "SPECIFIC_DAY", Day(1), T1830, NullTime, NullTime),
     Event(1, News, Ann, FALSE, "null", NullDay, NullTime, Iso(2, 18, 30, 0), NullTime)}

\* a weekday and a weekend record of the same time of day, as shows and as events
WeekdayShow == Show(1, News, Ann, TRUE, "WEEKDAYS", NullDay, T1830)
WeekendShow == Show(2, Jam, Tom, TRUE, "WEEKENDS", NullDay, T1830)
WeekdayEvent == Event(1, News, Ann, TRUE, "WEEKDAYS", NullDay, T1830, NullTime, NullTime)
WeekendEvent == Event(2, Jam, Tom, TRUE, "WEEKENDS", NullDay, T1830, NullTime, NullTime)

PairLoads ==
    {<<(<<WeekdayShow, WeekendShow>>), <<>>>>,
     <<(<<>>), <<WeekendEvent, WeekdayEvent>>>>,
     <<(<<WeekendShow>>), <<WeekdayEvent>>>>}

\* records that are not well formed: an unknown rule, a day that is no backend
\* day, a time that is neither a clock time nor a timestamp
MalformedShows ==
    {Show(3, News, Ann, TRUE, "MONTHLY", NullDay, T1830),
     Show(3, News, Ann, TRUE, "SPECIFIC_DAY", Day(0 - 1), T1830),
     Show(3, News, Ann, TRUE, "SPECIFIC_DAY", Day(7), T1830),
     Show(3, News, Ann, TRUE, "WEEKENDS", NullDay, Word)}
MalformedEvents ==
    {Event(3, News, Ann, TRUE, "SPECIFIC_DAY", Day(0 - 1), T1830, NullTime, NullTime),
     Event(3, News, Ann, TRUE, "WEEKENDS", NullDay, Word, NullTime, NullTime)}

\* lists in which one such record stands among well-formed ones
MixedLoads ==
    {<<(<<m, WeekendShow>>), <<>>>> : m \in MalformedShows}
    \cup {<<(<<WeekdayShow, m>>), <<WeekendEvent>>>> : m \in MalformedShows}
    \cup {<<(<<WeekendShow>>), <<m, WeekdayEvent>>>> : m \in MalformedEvents}

SeqsUpTo(S, n) == UNION {[1..k -> S] : k \in 0..n}

\* what one load can return: one record of a pool, or short lists of the
\* core records
Loads ==
    {<<(<<s>>), <<>>>> : s \in ShowPool}
    \cup {<<(<<>>), <<e>>>> : e \in EventPool}
    \cup PairLoads
    \cup MixedLoads
    \cup {load \in SeqsUpTo(CoreShows, MaxEntries) \X SeqsUpTo(CoreEvents, MaxEntries) :
              Len(load[1]) + Len(load[2]) <= MaxEntries}

Filters == {"all", "shows", "events"}
Queries == {<<>>, <<"n", "e">>}

\* the instants at which the clock is read: two times of day on each day
ClockTimes == <<(<<9, 15, 30>>), <<21, 40, 0>>>>
Clock(day, k) == MkDate(day, ClockTimes[k][1], ClockTimes[k][2], ClockTimes[k][3])
ClockValues == {Clock(day, k) : day \in 0..MaxDay, k \in 1..Len(ClockTimes)}

---------------------------------------------------------------------------
(* The state machine of EventCalendar.                                     *)

\* the component as mounted: the useState initial values, the first render
Init ==
    /\ shows = <<>>
    /\ events = <<>>
    /\ isLoading = TRUE
    /\ filter = "all"
    /\ searchQuery = <<>>
    /\ now \in ClockValues
    /\ renderedAt = now
    /\ calendarItems = computeCalendarItems(<<>>, <<>>, "all", <<>>, now)
    /\ AuthAtRest
    /\ PollAtRest

\* loadData: both fetches resolve (a failed fetchEvents resolves to [])
LoadData(showsData, eventsData) ==
    /\ isLoading
    /\ shows' = showsData
    /\ events' = eventsData
    /\ isLoading' = FALSE
    /\ calendarItems' = computeCalendarItems(showsData, eventsData, filter, searchQuery, now)
    /\ renderedAt' = now
    /\ UNCHANGED <<filter, searchQuery, now, authVars, pollVars>>

\* loadData: fetchShows rejects
LoadDataFailed ==
    /\ isLoading
    /\ isLoading' = FALSE
    /\ UNCHANGED <<shows, events, filter, searchQuery, calendarItems, renderedAt, now>>
    /\ UNCHANGED <<authVars, pollVars>>

\* the filter buttons (rendered once loading is over)
SetFilter(f) ==
    /\ ~isLoading
    /\ f # filter
    /\ filter' = f
    /\ calendarItems' = computeCalendarItems(shows, events, f, searchQuery, now)
    /\ renderedAt' = now
    /\ UNCHANGED <<shows, events, isLoading, searchQuery, now, authVars, pollVars>>

\* the search box
SetSearchQuery(q) ==
    /\ ~isLoading
    /\ q # searchQuery
    /\ searchQuery' = q
    /\ calendarItems' = computeCalendarItems(shows, events, filter, q, now)
    /\ renderedAt' = now
    /\ UNCHANGED <<shows, events, isLoading, filter, now, authVars, pollVars>>

\* time passes; the memoised list is not recomputed
Tick ==
    /\ \E c \in ClockValues :
          /\ c.t > now.t
          /\ \A d \in ClockValues : ~(now.t < d.t /\ d.t < c.t)
          /\ now' = c
    /\ UNCHANGED <<shows, events, isLoading, filter, searchQuery, calendarItems, renderedAt>>
    /\ UNCHANGED <<authVars, pollVars>>

Next ==
    \/ \E load \in Loads : LoadData(load[1], load[2])
    \/ LoadDataFailed
    \/ \E f \in Filters : SetFilter(f)
    \/ \E q \in Queries : SetSearchQuery(q)
    \/ Tick

Spec == Init /\ [][Next]_vars

---------------------------------------------------------------------------
(* What the claims speak of.                                               *)

\* the first day of the window the last render projected over, and its days
Today == DayOf(renderedAt)
WindowDays == Today..(Today + ProjectionDays - 1)

\* the days RealTimeCalendar may be asked about: the days of its month grids
GridDays == 0..(MaxDay + ProjectionDays + 7)
GridDate(d) == MkDate(d, 0, 0, 0)

\* the weekday names of getDay
Sunday == 0
Saturday == 6

\* the entries of the two lists, each with its type, its place in its list and
\* the time value the projection is given for it
Entries ==
    {[type |-> "show", at |-> k, id |-> shows[k].id,
      title |-> shows[k].title, creator |-> shows[k].creator,
      is_recurring |-> shows[k].is_recurring,
      recurrence_type |-> shows[k].recurrence_type,
      day_of_week |-> shows[k].day_of_week,
      time |-> shows[k].scheduled_time] : k \in 1..Len(shows)}
    \cup
    {[type |-> "event", at |-> k, id |-> events[k].id,
      title |-> events[k].title, creator |-> events[k].creator,
      is_recurring |-> events[k].is_recurring,
      recurrence_type |-> events[k].recurrence_type,
      day_of_week |-> events[k].day_of_week,
      time |-> Or(events[k].scheduled_time,
                  Or(events[k].start_datetime, events[k].start_date))] :
        k \in 1..Len(events)}

\* the content filter lets the type through and the search, if any, the entry
Admitted(e) ==
    /\ filter = "all" \/ (filter = "shows" /\ e.type = "show")
                      \/ (filter = "events" /\ e.type = "event")
    /\ searchQuery = <<>> \/ matchesSearch(e, searchQuery)

\* the only entry of its id in its list
Sole(e) == \A o \in Entries : (o.type = e.type /\ o.id = e.id) => o.at = e.at

\* the recurring entries whose occurrences the item list is to show
ShownRecurring == {e \in Entries : e.is_recurring /\ Admitted(e) /\ Sole(e)}

\* the dates of the items of an entry, in the order of the list
ItemDates(e) ==
    LET own == SelectSeq(calendarItems, LAMBDA i : i.id = e.id /\ i.type = e.type)
    IN  [k \in 1..Len(own) |-> own[k].date]

\* how many of the dates fall on the days first..last
CountWithin(dates, first, last) ==
    Cardinality({k \in 1..Len(dates) :
        dates[k].valid /\ DayOf(dates[k]) >= first /\ DayOf(dates[k]) <= last})

\* RealTimeCalendar lists the entry on the day
ListedOn(e, d) ==
    IF e.type = "show"
    THEN showOnDay(shows[e.at], GridDate(d))
    ELSE eventOnDay(events[e.at], GridDate(d))

---------------------------------------------------------------------------
(* C1: for every backend day 0..6 (0 = Monday) of a loaded SPECIFIC_DAY     *)
(* record, each of the three conversions gives (day + 1) mod 7, so 0 gives  *)
(* 1 (Monday) and 6 gives 0 (Sunday), and that is the weekday its items     *)
(* fall on and the weekday RealTimeCalendar lists it on.                    *)
DayMapping ==
    \A e \in Entries :
        (e.recurrence_type = "SPECIFIC_DAY" /\ ~e.day_of_week.null
            /\ e.day_of_week.val \in 0..6) =>
        LET backendDay == e.day_of_week.val
            calendarDay == (backendDay + 1) % 7
        IN  /\ frontendDay(backendDay) = calendarDay
            /\ showFrontendDay(backendDay) = calendarDay
            /\ eventFrontendDay(backendDay) = calendarDay
            /\ backendDay = 0 => frontendDay(backendDay) = 1
            /\ backendDay = 6 => frontendDay(backendDay) = Sunday
            /\ e.is_recurring =>
                  /\ LET dates == ItemDates(e)
                     IN  \A k \in 1..Len(dates) : getDay(dates[k]) = calendarDay
                  /\ \A d \in GridDays :
                         ListedOn(e, d) <=> (d % 7 = calendarDay)

\* a backend Sunday (6) is loaded and has an item, on a Sunday
DayMappingWitness ==
    \E e \in ShownRecurring :
        /\ e.recurrence_type = "SPECIFIC_DAY"
        /\ e.day_of_week = Day(6)
        /\ Len(ItemDates(e)) > 0
        /\ getDay(ItemDates(e)[1]) = Sunday

---------------------------------------------------------------------------
(* C2: no two items of the list have the same id, type and calendar day,    *)
(* whatever entries the lists hold.                                         *)
NoDuplicateItems ==
    \A i, j \in 1..Len(calendarItems) :
        i < j =>
            ~ /\ calendarItems[i].id = calendarItems[j].id
              /\ calendarItems[i].type = calendarItems[j].type
              /\ toDateString(calendarItems[i].date) = toDateString(calendarItems[j].date)

---------------------------------------------------------------------------
(* C3: a DAILY record has, in every run of n consecutive days of the        *)
(* projected window, exactly n items, one on each day, and its items are    *)
(* in strictly increasing order of time.                                    *)
DailyCompleteness ==
    \A e \in ShownRecurring :
        e.recurrence_type = "DAILY" =>
            LET dates == ItemDates(e)
            IN  /\ \A first \in WindowDays : \A n \in 1..ProjectionDays :
                       first + n <= Today + ProjectionDays =>
                           CountWithin(dates, first, first + n - 1) = n
                /\ \A d \in WindowDays : CountWithin(dates, d, d) = 1
                /\ Len(dates) = ProjectionDays
                /\ \A k \in 1..(Len(dates) - 1) : getTime(dates[k]) < getTime(dates[k + 1])

\* a DAILY record is shown, with an item on the first and on the last day
DailyCompletenessWitness ==
    \E e \in ShownRecurring :
        /\ e.recurrence_type = "DAILY"
        /\ CountWithin(ItemDates(e), Today, Today) = 1
        /\ CountWithin(ItemDates(e), Today + ProjectionDays - 1, Today + ProjectionDays - 1) = 1

---------------------------------------------------------------------------
(* C4: of a WEEKDAYS record and a WEEKENDS record, in every run of 7        *)
(* consecutive days (of the projected window in EventCalendar, of the grid  *)
(* in RealTimeCalendar), whatever weekday the run starts on, every day has  *)
(* an occurrence of exactly one of the two, and has it once.                *)
WeekPartition ==
    \A x, y \in Entries :
        (/\ x.is_recurring /\ x.recurrence_type = "WEEKDAYS"
         /\ y.is_recurring /\ y.recurrence_type = "WEEKENDS") =>
            /\ (x \in ShownRecurring /\ y \in ShownRecurring) =>
                  LET xs == ItemDates(x)
                      ys == ItemDates(y)
                  IN  \A first \in WindowDays :
                          first + 7 <= Today + ProjectionDays =>
                              /\ CountWithin(xs, first, first + 6)
                                     + CountWithin(ys, first, first + 6) = 7
                              /\ \A d \in first..(first + 6) :
                                     CountWithin(xs, d, d) + CountWithin(ys, d, d) = 1
            /\ \A first \in GridDays :
                   \A d \in first..(first + 6) :
                       ListedOn(x, d) # ListedOn(y, d)

\* both records are shown, one on the Monday and one on the Sunday of the window
WeekPartitionWitness ==
    \E x, y \in ShownRecurring :
        /\ x.recurrence_type = "WEEKDAYS"
        /\ y.recurrence_type = "WEEKENDS"
        /\ \E k \in 1..Len(ItemDates(x)) : getDay(ItemDates(x)[k]) = 1
        /\ \E k \in 1..Len(ItemDates(y)) : getDay(ItemDates(y)[k]) = Sunday
        /\ Len(ItemDates(x)) + Len(ItemDates(y)) = ProjectionDays

---------------------------------------------------------------------------
(* C5: a recurring record occurs on a day of weekday dow exactly when its   *)
(* rule says so: DAILY always, WEEKDAYS on 1..5, WEEKENDS on 0 and 6,       *)
(* SPECIFIC_DAY of backend day a (0..6) on (a + 1) mod 7, any other rule    *)
(* value never.  In EventCalendar the days are those of the projected       *)
(* window, in RealTimeCalendar those of the grid.                           *)
RuleSays(e, dow) ==
    CASE e.recurrence_type = "DAILY" -> TRUE
      [] e.recurrence_type = "WEEKDAYS" -> dow \in {1, 2, 3, 4, 5}
      [] e.recurrence_type = "WEEKENDS" -> dow \in {Sunday, Saturday}
      [] e.recurrence_type = "SPECIFIC_DAY" ->
             ~e.day_of_week.null /\ dow = (e.day_of_week.val + 1) % 7
      [] OTHER -> FALSE

\* the day of a SPECIFIC_DAY rule is a backend day, or there is none
BackendDay(e) == e.day_of_week.null \/ e.day_of_week.val \in 0..6

RuleMatching ==
    \A e \in Entries :
        (e.is_recurring /\ BackendDay(e)) =>
            /\ e \in ShownRecurring =>
                  LET dates == ItemDates(e)
                  IN  \A d \in WindowDays :
                          (CountWithin(dates, d, d) > 0) <=> RuleSays(e, d % 7)
            /\ \A d \in GridDays : ListedOn(e, d) <=> RuleSays(e, d % 7)

\* a WEEKENDS record is shown with the 8 weekend days of its window, and
\* RealTimeCalendar lists it on the first Saturday and not on the Friday before
RuleMatchingWitness ==
    \E e \in ShownRecurring :
        /\ e.recurrence_type = "WEEKENDS"
        /\ Len(ItemDates(e)) = 8
        /\ ListedOn(e, 6) /\ ~ListedOn(e, 5)

---------------------------------------------------------------------------
(* C6: a SPECIFIC_DAY record of backend day 6 has, in every run of 14       *)
(* consecutive days of the projected window, exactly two items; each of     *)
(* its items falls on a Sunday.                                             *)
SundayWrap ==
    \A e \in ShownRecurring :
        (e.recurrence_type = "SPECIFIC_DAY" /\ e.day_of_week = Day(6)) =>
            LET dates == ItemDates(e)
            IN  /\ \A first \in WindowDays :
                       first + 14 <= Today + ProjectionDays =>
                           CountWithin(dates, first, first + 13) = 2
                /\ \A k \in 1..Len(dates) : getDay(dates[k]) = Sunday

\* the record is shown while the window starts on a Monday: two Sundays lie
\* in its first 14 days
SundayWrapWitness ==
    \E e \in ShownRecurring :
        /\ e.recurrence_type = "SPECIFIC_DAY" /\ e.day_of_week = Day(6)
        /\ Today % 7 = 1
        /\ CountWithin(ItemDates(e), Today, Today + 13) = 2

---------------------------------------------------------------------------
(* C7: show 1, SPECIFIC_DAY of backend day 0 at "18:30", projected on       *)
(* Monday 2024-06-03 (day 1): its items from that day up to 2024-06-17      *)
(* (day 15, excluded) are 2024-06-03 18:30 and 2024-06-10 18:30 (day 8).    *)
IsScenarioShow(e) ==
    /\ e.type = "show" /\ e.id = 1
    /\ e.recurrence_type = "SPECIFIC_DAY" /\ e.day_of_week = Day(0)
    /\ e.time = T1830

MondayScenario ==
    \A e \in ShownRecurring :
        (IsScenarioShow(e) /\ Today = 1) =>
            SelectSeq(ItemDates(e), LAMBDA date : DayOf(date) >= 1 /\ DayOf(date) < 15)
                = <<MkDate(1, 18, 30, 0), MkDate(8, 18, 30, 0)>>

\* the show is shown on that Monday, its first item on the day itself
MondayScenarioWitness ==
    \E e \in ShownRecurring :
        /\ IsScenarioShow(e) /\ Today = 1
        /\ Len(ItemDates(e)) > 0
        /\ DayOf(ItemDates(e)[1]) = 1

---------------------------------------------------------------------------
(* C8: the item list is in ascending order of time, and items of equal      *)
(* time are in the order of their type (shows first) and then of their id. *)
TypeRank(item) == IF item.type = "show" THEN 0 ELSE 1

SortedWithTieBreak ==
    \A i, j \in 1..Len(calendarItems) :
        i < j =>
            LET a == calendarItems[i]
                b == calendarItems[j]
            IN  \/ getTime(a.date) < getTime(b.date)
                \/ /\ getTime(a.date) = getTime(b.date)
                   /\ \/ TypeRank(a) < TypeRank(b)
                      \/ TypeRank(a) = TypeRank(b) /\ a.id <= b.id

---------------------------------------------------------------------------
(* C9: the item list is the same at whatever instant of the day the         *)
(* projection runs: a run on the same lists, filter and query at any other  *)
(* clock reading of that day gives the list the last render gave.           *)
ClockIndependent ==
    \A c \in ClockValues :
        DayOf(c) = Today =>
            computeCalendarItems(shows, events, filter, searchQuery, c) = calendarItems

---------------------------------------------------------------------------
(* C10: the items of a recurring record whose time value is missing or is   *)
(* neither a clock time nor a timestamp are at 00:00 of the days its rule   *)
(* matches, as many as the rule matches.                                    *)
Unparsable(time) ==
    \/ ~Truthy(time)
    \/ /\ time.kind = "text"
       /\ ~(includes(time.chars, ":") /\ Len(time.chars) <= BareTimeMaxLen)

MidnightDefault ==
    \A e \in ShownRecurring :
        (Unparsable(e.time) /\ BackendDay(e)) =>
            LET dates == ItemDates(e)
            IN  /\ \A k \in 1..Len(dates) :
                       /\ getHours(dates[k]) = 0
                       /\ getMinutes(dates[k]) = 0
                       /\ getSeconds(dates[k]) = 0
                /\ \A d \in WindowDays :
                       CountWithin(dates, d, d) = (IF RuleSays(e, d % 7) THEN 1 ELSE 0)

---------------------------------------------------------------------------
(* C11: a recurring SPECIFIC_DAY record whose day_of_week is missing or is  *)
(* outside 0..6 (such as -1 or 7) has no item on any day and is listed by   *)
(* RealTimeCalendar on no day.                                              *)
InvalidAnchorDay ==
    \A e \in Entries :
        (/\ e.is_recurring /\ Sole(e)
         /\ e.recurrence_type = "SPECIFIC_DAY"
         /\ (e.day_of_week.null \/ e.day_of_week.val \notin 0..6)) =>
            /\ ItemDates(e) = <<>>
            /\ \A d \in GridDays : ~ListedOn(e, d)

---------------------------------------------------------------------------
\* a recurring entry with an unknown or missing rule, with a SPECIFIC_DAY rule
\* whose day is missing or is no backend day, or with a time value that is
\* neither a clock time nor a timestamp
Malformed(e) ==
    /\ e.is_recurring
    /\ \/ e.recurrence_type \notin {"DAILY", "WEEKDAYS", "WEEKENDS", "SPECIFIC_DAY"}
       \/ /\ e.recurrence_type = "SPECIFIC_DAY"
          /\ (e.day_of_week.null \/ e.day_of_week.val \notin 0..6)
       \/ Truthy(e.time) /\ Unparsable(e.time)

\* the list without its k-th entry
Without(list, k) == SubSeq(list, 1, k - 1) \o SubSeq(list, k + 1, Len(list))

\* the item list the last render would have made had the entry not been loaded
ItemsWithout(e) ==
    computeCalendarItems(IF e.type = "show" THEN Without(shows, e.at) ELSE shows,
                         IF e.type = "event" THEN Without(events, e.at) ELSE events,
                         filter, searchQuery, renderedAt)

---------------------------------------------------------------------------
\* the timestamp of a one-off entry: scheduled_time of a show,
\* start_datetime || start_date of an event
OneOffStamp(e) ==
    IF e.type = "show" THEN shows[e.at].scheduled_time
    ELSE Or(events[e.at].start_datetime, events[e.at].start_date)

\* the window of the last render: from 00:00 of its day, 28 days
WindowStart == Today * DaySeconds
WindowEnd == (Today + ProjectionDays) * DaySeconds

(* C13: a one-off entry has an item exactly when its timestamp lies in the  *)
(* window, start included and end excluded; RealTimeCalendar lists it on a  *)
(* day exactly when its timestamp lies within that day.                     *)
OneOffWindow ==
    \A e \in Entries :
        (~e.is_recurring /\ Admitted(e) /\ Sole(e) /\ OneOffStamp(e).kind = "iso") =>
            LET stamp == OneOffStamp(e)
            IN  /\ (ItemDates(e) # <<>>) <=> (WindowStart <= stamp.t /\ stamp.t < WindowEnd)
                /\ \A d \in GridDays :
                       ListedOn(e, d) <=>
                           (d * DaySeconds <= stamp.t /\ stamp.t < (d + 1) * DaySeconds)

---------------------------------------------------------------------------
(* C14: an entry with is_recurring set and no recurrence_type has no item   *)
(* on any day and is listed by RealTimeCalendar on no day, also when it     *)
(* carries a scheduled time or a start timestamp.                           *)
NoRuleNoOccurrence ==
    \A e \in Entries :
        (e.is_recurring /\ e.recurrence_type = "null" /\ Sole(e)) =>
            /\ ItemDates(e) = <<>>
            /\ \A d \in GridDays : ~ListedOn(e, d)

\* a recurring event without a rule is loaded and admitted, its start
\* timestamp on a day of the window
NoRuleNoOccurrenceWitness ==
    \E e \in Entries :
        /\ e.type = "event" /\ e.is_recurring /\ e.recurrence_type = "null"
        /\ Admitted(e) /\ Sole(e)
        /\ OneOffStamp(e).kind = "iso"
        /\ OneOffStamp(e).t \div DaySeconds \in WindowDays
        /\ ~isLoading

---------------------------------------------------------------------------
\* the list the last render would have made under the filter 'all'
UnfilteredItems == computeCalendarItems(shows, events, "all", searchQuery, renderedAt)

\* the item type a filter value stands for
FilterType == IF filter = "shows" THEN "show" ELSE "event"

(* C15: under the filter 'shows' or 'events' every item is of that type,    *)
(* and the list is the items of that type of the list made under 'all'     *)
(* from the same lists and query.                                           *)
TypeFilter ==
    filter # "all" =>
        /\ \A k \in 1..Len(calendarItems) : calendarItems[k].type = FilterType
        /\ calendarItems = SelectSeq(UnfilteredItems, LAMBDA i : i.type = FilterType)

\* a filter is set while both types have items: the filtered list is not
\* empty and is shorter than the unfiltered one
TypeFilterWitness ==
    /\ filter = "events"
    /\ calendarItems # <<>>
    /\ Len(calendarItems) < Len(UnfilteredItems)

---------------------------------------------------------------------------
\* the dates of the items an entry has when it is the only entry loaded
AloneDates(e) ==
    LET items == computeCalendarItems(
                     IF e.type = "show" THEN <<shows[e.at]>> ELSE <<>>,
                     IF e.type = "event" THEN <<events[e.at]>> ELSE <<>>,
                     "all", <<>>, renderedAt)
    IN  [k \in 1..Len(items) |-> items[k].date]

(* C16: a show and an event of the same id are two entities: on a day on    *)
(* which each of them occurs by itself, the list holds the items of both.   *)
IdentityAcrossTypes ==
    \A s, e \in Entries :
        (/\ s.type = "show" /\ e.type = "event" /\ s.id = e.id
         /\ Sole(s) /\ Sole(e) /\ Admitted(s) /\ Admitted(e)) =>
            LET showAlone == AloneDates(s)
                eventAlone == AloneDates(e)
                showDates == ItemDates(s)
                eventDates == ItemDates(e)
            IN  \A d \in GridDays :
                    (CountWithin(showAlone, d, d) > 0 /\ CountWithin(eventAlone, d, d) > 0) =>
                        /\ CountWithin(showDates, d, d) = CountWithin(showAlone, d, d)
                        /\ CountWithin(eventDates, d, d) = CountWithin(eventAlone, d, d)

\* a show and an event of one id both have an item on the same day
IdentityAcrossTypesWitness ==
    \E s, e \in Entries :
        /\ s.type = "show" /\ e.type = "event" /\ s.id = e.id
        /\ Sole(s) /\ Sole(e)
        /\ \E d \in WindowDays :
               /\ CountWithin(ItemDates(s), d, d) = 1
               /\ CountWithin(ItemDates(e), d, d) = 1

---------------------------------------------------------------------------
\* the calendar days a sequence of dates falls on
DaySet(dates) == {DayOf(dates[k]) : k \in 1..Len(dates)}

(* C17: every item of a recurring record falls on a day of the window,      *)
(* from the day of the render (included when the rule matches it) up to,    *)
(* and not including, the day 28 days later; every day of the window that   *)
(* the rule matches has an item.                                            *)
WindowEnumeration ==
    \A e \in ShownRecurring :
        LET days == DaySet(ItemDates(e))
        IN  /\ days \subseteq WindowDays
            /\ (Today + ProjectionDays) \notin days
            /\ BackendDay(e) =>
                  /\ RuleSays(e, Today % 7) => Today \in days
                  /\ \A d \in WindowDays : RuleSays(e, d % 7) => d \in days

\* a record of a weekly rule that matches the day of the render, and so the
\* day the window ends on: an item on the first, none on the second
WindowEnumerationWitness ==
    \E e \in ShownRecurring :
        /\ e.recurrence_type # "DAILY"
        /\ BackendDay(e)
        /\ RuleSays(e, Today % 7) /\ RuleSays(e, (Today + ProjectionDays) % 7)
        /\ CountWithin(ItemDates(e), Today, Today) = 1
        /\ CountWithin(ItemDates(e), Today + ProjectionDays - 7, Today + ProjectionDays - 7) = 1

---------------------------------------------------------------------------
\* what projectRecurringDates returned for the entry in the last render
Projected(e) ==
    projectRecurringDates(e.recurrence_type, e.day_of_week, e.time, renderedAt)

\* the days of the window that the rule of the entry matches
MatchingDays(e) == {d \in WindowDays : RuleSays(e, d % 7)}

(* C18: the projection of a recurring record returns one date for each day  *)
(* of the window that its rule matches and none for any other day: the days *)
(* of its dates are the matching days and it has as many dates as there are *)
(* matching days; these dates are the items of the record.                  *)
OneOccurrencePerDay ==
    \A e \in Entries :
        (e.is_recurring /\ e.recurrence_type # "null" /\ BackendDay(e)) =>
            LET dates == Projected(e)
                matching == MatchingDays(e)
            IN  /\ DaySet(dates) = matching
                /\ Len(dates) = Cardinality(matching)
                /\ e \in ShownRecurring => ItemDates(e) = dates

\* a WEEKDAYS record is shown with its 20 items
OneOccurrencePerDayWitness ==
    \E e \in ShownRecurring :
        /\ e.recurrence_type = "WEEKDAYS"
        /\ Len(Projected(e)) = 20
        /\ Len(ItemDates(e)) = 20

---------------------------------------------------------------------------
\* "HH:MM" or "HH:MM:SS", HH below 24 and MM below 60
IsClockTime(time) ==
    /\ time.kind = "text"
    /\ Len(time.chars) \in {5, 8}
    /\ \A i \in {1, 2, 4, 5} : IsDigit(time.chars[i])
    /\ time.chars[3] = ":"
    /\ Len(time.chars) = 8 =>
          time.chars[6] = ":" /\ IsDigit(time.chars[7]) /\ IsDigit(time.chars[8])
    /\ DigitValue(time.chars[1]) * 10 + DigitValue(time.chars[2]) < 24
    /\ DigitValue(time.chars[4]) < 6

\* its HH and MM fields
HH(time) == DigitValue(time.chars[1]) * 10 + DigitValue(time.chars[2])
MM(time) == DigitValue(time.chars[4]) * 10 + DigitValue(time.chars[5])

(* C19: the items of a recurring record whose time is "HH:MM" or            *)
(* "HH:MM:SS" (8 characters included) are at hour HH, minute MM and second  *)
(* 0, one on every day of the window that the rule matches.                 *)
BareClockTime ==
    \A e \in ShownRecurring :
        IsClockTime(e.time) =>
            LET dates == ItemDates(e)
            IN  /\ \A k \in 1..Len(dates) :
                       /\ getHours(dates[k]) = HH(e.time)
                       /\ getMinutes(dates[k]) = MM(e.time)
                       /\ getSeconds(dates[k]) = 0
                /\ BackendDay(e) =>
                       LET matching == MatchingDays(e)
                       IN  /\ matching \subseteq DaySet(dates)
                           /\ Len(dates) = Cardinality(matching)

\* a record at "09:15:00" is shown by a render at a time of other seconds
BareClockTimeWitness ==
    \E e \in ShownRecurring :
        /\ e.time = T091500
        /\ getSeconds(renderedAt) # 0
        /\ Len(ItemDates(e)) > 0
        /\ getHours(ItemDates(e)[1]) = 9 /\ getMinutes(ItemDates(e)[1]) = 15

---------------------------------------------------------------------------
(* C20: the items of a recurring record whose time value is a full          *)
(* timestamp are at the hour and minute of the timestamp, one on every day  *)
(* of the window that the rule matches, whatever the date of the            *)
(* timestamp; so for a recurring event without scheduled_time, from its     *)
(* start_datetime or else its start_date.                                   *)
TimestampTime ==
    \A e \in ShownRecurring :
        e.time.kind = "iso" =>
            LET dates == ItemDates(e)
                stamp == IF e.type = "event" /\ ~Truthy(events[e.at].scheduled_time)
                         THEN OneOffStamp(e) ELSE e.time
            IN  /\ \A k \in 1..Len(dates) :
                       /\ getHours(dates[k]) = (stamp.t % DaySeconds) \div 3600
                       /\ getMinutes(dates[k]) = (stamp.t % 3600) \div 60
                       /\ getSeconds(dates[k]) = 0
                /\ BackendDay(e) =>
                       LET matching == MatchingDays(e)
                       IN  /\ DaySet(dates) = matching
                           /\ Len(dates) = Cardinality(matching)

\* a DAILY event without scheduled_time and with a start_datetime at 20:45
\* is shown: 28 items at that time, on days other than the timestamp's
TimestampTimeWitness ==
    \E e \in ShownRecurring :
        /\ e.type = "event" /\ e.recurrence_type = "DAILY"
        /\ ~Truthy(events[e.at].scheduled_time)
        /\ events[e.at].start_datetime = IsoTime
        /\ Len(ItemDates(e)) = ProjectionDays
        /\ getHours(ItemDates(e)[1]) = 20 /\ getMinutes(ItemDates(e)[1]) = 45
        /\ DayOf(ItemDates(e)[1]) # IsoTime.t \div DaySeconds

---------------------------------------------------------------------------
(* C21: an entry with is_recurring false has at most one item, at its own   *)
(* timestamp, whatever its recurrence_type and day_of_week are, and         *)
(* RealTimeCalendar lists it on the day of its timestamp alone; an entry    *)
(* with is_recurring true has its projected dates and no item besides.      *)
OneOffIgnoresRule ==
    \A e \in Entries :
        (Sole(e) /\ Admitted(e)) =>
            IF e.is_recurring
            THEN ItemDates(e) = Projected(e)
            ELSE LET stamp == OneOffStamp(e)
                 IN  /\ ItemDates(e) = (IF Truthy(stamp) THEN <<newDate(stamp)>> ELSE <<>>)
                     /\ \A d \in GridDays :
                            ListedOn(e, d) <=>
                                (stamp.kind = "iso" /\ stamp.t \div DaySeconds = d)

\* a one-off show that names the rule DAILY and a day has its one item
OneOffIgnoresRuleWitness ==
    \E e \in Entries :
        /\ ~e.is_recurring /\ e.recurrence_type = "DAILY" /\ ~e.day_of_week.null
        /\ e.type = "show" /\ Sole(e) /\ Admitted(e)
        /\ Len(ItemDates(e)) = 1

---------------------------------------------------------------------------
(* C22: an occurrence on a day of the window is in the list also when its   *)
(* time is before the instant of the render: a recurring record at a clock  *)
(* time whose rule matches the day of the render has its item of that day,  *)
(* and a one-off entry stamped within the window has its item.              *)
NoPastFiltering ==
    \A e \in Entries :
        (Sole(e) /\ Admitted(e)) =>
            IF e.is_recurring
            THEN (e.recurrence_type # "null" /\ BackendDay(e) /\ IsClockTime(e.time)
                    /\ RuleSays(e, Today % 7)) =>
                     \E k \in 1..Len(ItemDates(e)) :
                         ItemDates(e)[k] = MkDate(Today, HH(e.time), MM(e.time), 0)
            ELSE LET stamp == OneOffStamp(e)
                 IN  (stamp.kind = "iso" /\ WindowStart <= stamp.t /\ stamp.t < WindowEnd) =>
                         ItemDates(e) = <<newDate(stamp)>>

\* a record at "18:30" is shown by a render later that day, with its item of
\* that day
NoPastFilteringWitness ==
    \E e \in ShownRecurring :
        /\ e.time = T1830
        /\ getTime(renderedAt) > getTime(MkDate(Today, 18, 30, 0))
        /\ \E k \in 1..Len(ItemDates(e)) : ItemDates(e)[k] = MkDate(Today, 18, 30, 0)

---------------------------------------------------------------------------
\* the calendar days on which the list has an item of the entry
ItemDays(e) ==
    LET dates == ItemDates(e)
    IN  {DayOf(dates[k]) : k \in {j \in 1..Len(dates) : dates[j].valid}}

---------------------------------------------------------------------------
(* C24: the dates projectRecurringDates returns fall on the days today + k, *)
(* k in 0..27, no two on the same day; for a SPECIFIC_DAY rule of a day in  *)
(* 0..6 they are 4 dates, each 7 days after the one before.                 *)
RollingWindow ==
    \A e \in Entries :
        e.is_recurring =>
            LET dates == Projected(e)
            IN  /\ \A k \in 1..Len(dates) :
                       \E n \in 0..(ProjectionDays - 1) : DayOf(dates[k]) = Today + n
                /\ Cardinality(DaySet(dates)) = Len(dates)
                /\ (/\ e.recurrence_type = "SPECIFIC_DAY"
                    /\ ~e.day_of_week.null /\ e.day_of_week.val \in 0..6) =>
                       /\ Len(dates) = 4
                       /\ \A k \in 1..(Len(dates) - 1) :
                              getTime(dates[k + 1]) - getTime(dates[k]) = 7 * DaySeconds

\* a SPECIFIC_DAY record of the weekday of the render: its first date is
\* today, its last is today + 21
RollingWindowWitness ==
    \E e \in Entries :
        /\ e.is_recurring /\ e.recurrence_type = "SPECIFIC_DAY"
        /\ ~e.day_of_week.null /\ e.day_of_week.val \in 0..6
        /\ Len(Projected(e)) = 4
        /\ DayOf(Projected(e)[1]) = Today
        /\ DayOf(Projected(e)[4]) = Today + 21

---------------------------------------------------------------------------
\* the list the last render would have made without a search query
UnsearchedItems == computeCalendarItems(shows, events, filter, <<>>, renderedAt)

(* C25: whatever the search query, the item list is in ascending order of   *)
(* time, and it is the sorted list of the empty query with the items that   *)
(* do not match the query taken out.                                        *)
SortedUnderSearch ==
    /\ \A k \in 1..(Len(calendarItems) - 1) :
           getTime(calendarItems[k].date) <= getTime(calendarItems[k + 1].date)
    /\ calendarItems =
           SelectSeq(UnsearchedItems,
                     LAMBDA i : searchQuery = <<>> \/ matchesSearch(i, searchQuery))

---------------------------------------------------------------------------
(* AuthContext.tsx: AuthProvider, with the wallet state of useStacksAuth.   *)
(* A value that may be null is the string "null" or the value.  The         *)
(* requests in flight are records of their kind; each carries whether       *)
(* logout has run since it was sent (stale), which the program does not     *)
(* keep and the claims speak of.                                            *)

\* most requests in flight at a time
MaxInFlight == 2

Address == "SP1"
Token == "access"
StoredUser == "user"
UpdatedUser == "user'"

\* walletAuth: the session kept in localStorage
storeTokens(store, token) == [store EXCEPT !.token = token]
storeUser(store, user) == [store EXCEPT !.user = user]
clearAuth(store) == [token |-> "null", user |-> "null"]
getAccessToken(store) == store.token
getStoredUser(store) == store.user

\* localStorage.removeItem('access_token'), ('user_profile') of signOut
removeSession(store) == [store EXCEPT !.token = "null", !.user = "null"]

\* isBackendAuthenticated: !!backendUser && !!accessToken
isBackendAuthenticated == backendUser # "null" /\ accessToken # "null"

\* the calendar, not loaded, while the session is looked at
CalendarAtRest ==
    /\ shows = <<>>
    /\ events = <<>>
    /\ isLoading = TRUE
    /\ filter = "all"
    /\ searchQuery = <<>>
    /\ calendarItems = <<>>
    /\ renderedAt = MkDate(0, 0, 0, 0)
    /\ now = MkDate(0, 0, 0, 0)

\* the list without its i-th request
Settled(i) == SubSeq(requests, 1, i - 1) \o SubSeq(requests, i + 1, Len(requests))

\* the provider as mounted and after its mount effect: the session is
\* restored when both the token and the user are stored
Mounted ==
    /\ isWalletConnected = FALSE
    /\ userData = "null"
    /\ checkPending = TRUE
    /\ isAuthenticating = FALSE
    /\ authError = "null"
    /\ requests = <<>>
    /\ reloadPending = FALSE
    /\ IF getAccessToken(storage) # "null" /\ getStoredUser(storage) # "null"
       THEN accessToken = getAccessToken(storage) /\ backendUser = getStoredUser(storage)
       ELSE accessToken = "null" /\ backendUser = "null"

AuthInit ==
    /\ storage \in {[token |-> "null", user |-> "null"],
                    [token |-> Token, user |-> StoredUser]}
    /\ walletStored \in BOOLEAN
    /\ loggedOut = FALSE
    /\ Mounted
    /\ CalendarAtRest
    /\ PollAtRest

\* checkConnection of the mount effect of useStacksAuth resolves
CheckConnection ==
    /\ checkPending
    /\ checkPending' = FALSE
    /\ IF walletStored
       THEN userData' = Address /\ isWalletConnected' = TRUE
       ELSE UNCHANGED <<userData, isWalletConnected>>
    /\ UNCHANGED <<walletStored, backendUser, accessToken, isAuthenticating, authError,
                   storage, requests, reloadPending, loggedOut>>
    /\ UNCHANGED <<calendarVars, pollVars>>

\* onFinish of signIn: the wallet connected; the page reloads 500 ms later
WalletConnected ==
    /\ ~walletStored
    /\ walletStored' = TRUE
    /\ userData' = Address
    /\ isWalletConnected' = TRUE
    /\ reloadPending' = TRUE
    /\ UNCHANGED <<backendUser, accessToken, isAuthenticating, authError, storage,
                   requests, checkPending, loggedOut>>
    /\ UNCHANGED <<calendarVars, pollVars>>

\* handleWalletConnect up to its await; onExistingUser is the callback given
HandleWalletConnect(onExistingUser) ==
    /\ isWalletConnected /\ userData # "null"
    /\ Len(requests) < MaxInFlight
    /\ isAuthenticating' = TRUE
    /\ authError' = "null"
    /\ requests' = Append(requests, [kind |-> "checkWalletOrLogin",
                                     onExistingUser |-> onExistingUser, stale |-> FALSE])
    /\ UNCHANGED <<isWalletConnected, userData, walletStored, backendUser, accessToken,
                   storage, reloadPending, checkPending, loggedOut>>
    /\ UNCHANGED <<calendarVars, pollVars>>

\* what checkWalletOrLogin can resolve to: a new wallet, a user with tokens,
\* a user without them, or a rejection
ConnectResults == {"new", "existing", "existingWithoutTokens", "rejects"}

\* mutant: the flag is lowered at the end of try, not in finally
WalletConnectSettlesInTry(i, result) ==
    /\ i \in 1..Len(requests)
    /\ requests[i].kind = "checkWalletOrLogin"
    /\ requests' = Settled(i)
    /\ IF result = "existing"
       THEN /\ storage' = storeUser(storeTokens(storage, Token), StoredUser)
            /\ accessToken' = Token
            /\ backendUser' = StoredUser
            /\ reloadPending' = (reloadPending \/ requests[i].onExistingUser = "reload")
            /\ loggedOut' = (loggedOut /\ requests[i].stale)
       ELSE UNCHANGED <<storage, accessToken, backendUser, reloadPending, loggedOut>>
    /\ authError' = (IF result = "rejects" THEN "Authentication failed" ELSE authError)
    /\ isAuthenticating' = (IF result = "rejects" THEN isAuthenticating ELSE FALSE)
    /\ UNCHANGED <<isWalletConnected, userData, walletStored, checkPending>>
    /\ UNCHANGED <<calendarVars, pollVars>>

\* handleWalletConnect from its await on: try, catch, finally
WalletConnectSettles(i, result) ==
    /\ i \in 1..Len(requests)
    /\ requests[i].kind = "checkWalletOrLogin"
    /\ requests' = Settled(i)
    /\ IF result = "existing"
       THEN /\ storage' = storeUser(storeTokens(storage, Token), StoredUser)
            /\ accessToken' = Token
            /\ backendUser' = StoredUser
            /\ reloadPending' = (reloadPending \/ requests[i].onExistingUser = "reload")
            /\ loggedOut' = (loggedOut /\ requests[i].stale)
       ELSE UNCHANGED <<storage, accessToken, backendUser, reloadPending, loggedOut>>
    /\ authError' = (IF result = "rejects" THEN "Authentication failed" ELSE authError)
    /\ isAuthenticating' = FALSE
    /\ UNCHANGED <<isWalletConnected, userData, walletStored, checkPending>>
    /\ UNCHANGED <<calendarVars, pollVars>>

\* handleCompleteSetup without a wallet address
HandleCompleteSetupWithoutWallet ==
    /\ userData = "null"
    /\ authError' = "Wallet address not found. Please connect wallet."
    /\ UNCHANGED <<isWalletConnected, userData, walletStored, backendUser, accessToken,
                   isAuthenticating, storage, requests, reloadPending, checkPending,
                   loggedOut>>
    /\ UNCHANGED <<calendarVars, pollVars>>

\* handleCompleteSetup up to its await
HandleCompleteSetup ==
    /\ userData # "null"
    /\ Len(requests) < MaxInFlight
    /\ isAuthenticating' = TRUE
    /\ authError' = "null"
    /\ requests' = Append(requests, [kind |-> "completeSetup",
                                     onExistingUser |-> "none", stale |-> FALSE])
    /\ UNCHANGED <<isWalletConnected, userData, walletStored, backendUser, accessToken,
                   storage, reloadPending, checkPending, loggedOut>>
    /\ UNCHANGED <<calendarVars, pollVars>>

SetupResults == {"ok", "rejects"}

\* handleCompleteSetup from its await on; on success the page is reloaded
CompleteSetupSettles(i, result) ==
    /\ i \in 1..Len(requests)
    /\ requests[i].kind = "completeSetup"
    /\ requests' = Settled(i)
    /\ IF result = "ok"
       THEN /\ storage' = storeUser(storeTokens(storage, Token), StoredUser)
            /\ accessToken' = Token
            /\ backendUser' = StoredUser
            /\ reloadPending' = TRUE
            /\ loggedOut' = (loggedOut /\ requests[i].stale)
            /\ UNCHANGED authError
       ELSE /\ authError' = "Setup failed"
            /\ UNCHANGED <<storage, accessToken, backendUser, reloadPending, loggedOut>>
    /\ isAuthenticating' = FALSE
    /\ UNCHANGED <<isWalletConnected, userData, walletStored, checkPending>>
    /\ UNCHANGED <<calendarVars, pollVars>>

\* logout: signOut (disconnect, the wallet state and the stored session
\* cleared), the session state nulled, clearAuth
Logout ==
    /\ walletStored' = FALSE
    /\ userData' = "null"
    /\ isWalletConnected' = FALSE
    /\ backendUser' = "null"
    /\ accessToken' = "null"
    /\ authError' = "null"
    /\ storage' = clearAuth(removeSession(storage))
    /\ loggedOut' = TRUE
    /\ requests' = [k \in 1..Len(requests) |-> [requests[k] EXCEPT !.stale = TRUE]]
    /\ UNCHANGED <<isAuthenticating, reloadPending, checkPending>>
    /\ UNCHANGED <<calendarVars, pollVars>>

ClearAuthError ==
    /\ authError # "null"
    /\ authError' = "null"
    /\ UNCHANGED <<isWalletConnected, userData, walletStored, backendUser, accessToken,
                   isAuthenticating, storage, requests, reloadPending, checkPending,
                   loggedOut>>
    /\ UNCHANGED <<calendarVars, pollVars>>

\* refreshUser up to its awaits: nothing is asked without a stored token
RefreshUser ==
    /\ getAccessToken(storage) # "null"
    /\ Len(requests) < MaxInFlight
    /\ requests' = Append(requests, [kind |-> "getCurrentUser",
                                     onExistingUser |-> "none", stale |-> FALSE])
    /\ UNCHANGED <<isWalletConnected, userData, walletStored, backendUser, accessToken,
                   isAuthenticating, authError, storage, reloadPending, checkPending,
                   loggedOut>>
    /\ UNCHANGED <<calendarVars, pollVars>>

\* refreshUser from its await on
RefreshUserSettles(i, result) ==
    /\ i \in 1..Len(requests)
    /\ requests[i].kind = "getCurrentUser"
    /\ requests' = Settled(i)
    /\ IF result = "ok"
       THEN storage' = storeUser(storage, UpdatedUser) /\ backendUser' = UpdatedUser
       ELSE UNCHANGED <<storage, backendUser>>
    /\ UNCHANGED <<isWalletConnected, userData, walletStored, accessToken,
                   isAuthenticating, authError, reloadPending, checkPending, loggedOut>>
    /\ UNCHANGED <<calendarVars, pollVars>>

\* window.location.reload() takes place: the page and its requests are gone,
\* the provider mounts again
PageReload ==
    /\ reloadPending
    /\ isWalletConnected' = FALSE
    /\ userData' = "null"
    /\ checkPending' = TRUE
    /\ isAuthenticating' = FALSE
    /\ authError' = "null"
    /\ requests' = <<>>
    /\ reloadPending' = FALSE
    /\ IF getAccessToken(storage) # "null" /\ getStoredUser(storage) # "null"
       THEN accessToken' = getAccessToken(storage) /\ backendUser' = getStoredUser(storage)
       ELSE accessToken' = "null" /\ backendUser' = "null"
    /\ UNCHANGED <<walletStored, storage, loggedOut>>
    /\ UNCHANGED <<calendarVars, pollVars>>

AuthNext ==
    \/ CheckConnection
    \/ WalletConnected
    \/ \E callback \in {"none", "reload"} : HandleWalletConnect(callback)
    \/ \E i \in 1..MaxInFlight, result \in ConnectResults : WalletConnectSettles(i, result)
    \/ HandleCompleteSetupWithoutWallet
    \/ HandleCompleteSetup
    \/ \E i \in 1..MaxInFlight, result \in SetupResults : CompleteSetupSettles(i, result)
    \/ Logout
    \/ ClearAuthError
    \/ RefreshUser
    \/ \E i \in 1..MaxInFlight, result \in SetupResults : RefreshUserSettles(i, result)
    \/ PageReload

AuthSpec == AuthInit /\ [][AuthNext]_vars

\* the backend answers every request: each promise awaited by
\* handleWalletConnect and handleCompleteSetup settles, and a requested reload
\* takes place
AuthLiveSpec ==
    /\ AuthSpec
    /\ WF_vars(\E i \in 1..MaxInFlight, result \in ConnectResults : WalletConnectSettles(i, result))
    /\ WF_vars(\E i \in 1..MaxInFlight, result \in SetupResults : CompleteSetupSettles(i, result))
    /\ WF_vars(PageReload)

\* C26: once logout has run, backendUser and accessToken stay null until a
\* handleWalletConnect or handleCompleteSetup call started after the logout
\* succeeds; a request in flight when logout ran cannot set them again.
LogoutFinal ==
    loggedOut => (backendUser = "null" /\ accessToken = "null" /\ ~isBackendAuthenticated)

\* C27: backendUser and accessToken are both null or both non-null in every
\* state, so isBackendAuthenticated is true iff backendUser is non-null.
SessionPaired ==
    /\ (backendUser = "null") <=> (accessToken = "null")
    /\ isBackendAuthenticated <=> (backendUser # "null")

\* the requests in flight that raised the flag
AuthInFlight ==
    Cardinality({k \in 1..Len(requests) :
                    requests[k].kind \in {"checkWalletOrLogin", "completeSetup"}})

\* a handleWalletConnect or handleCompleteSetup request is rejected
AuthRejected ==
    \E i \in 1..MaxInFlight :
        WalletConnectSettles(i, "rejects") \/ CompleteSetupSettles(i, "rejects")

\* C28: a raised isAuthenticating flag is lowered again: every step in which
\* a handleWalletConnect or handleCompleteSetup request settles leaves the flag
\* false, whatever the outcome, so a raised flag always leads to a lowered
\* one; a rejection leaves authError non-null and backendUser and accessToken
\* as they were.
FlagReleased ==
    /\ isAuthenticating ~> ~isAuthenticating
    /\ [][AuthInFlight' < AuthInFlight => ~isAuthenticating']_vars
    /\ [][AuthRejected => authError' # "null" /\ UNCHANGED <<backendUser, accessToken>>]_vars

\* a request was rejected: the message is set and the flag is down
FlagReleasedWitness ==
    /\ authError \in {"Authentication failed", "Setup failed"}
    /\ ~isAuthenticating
    /\ requests = <<>>

\* ---------------------------------------------------------------------
\* signIn's polling (useStacksAuth.ts): every 500 ms a tick counts itself,
\* awaits isConnected() and then reloads the page, clears the interval or
\* leaves it running
\* ---------------------------------------------------------------------

maxPolls == 20

\* ticks are followed up to MaxTicks; at most MaxPendingChecks of them await
\* isConnected() at a time
MaxTicks == 23
MaxPendingChecks == 2

\* signIn has been called: the interval runs, no tick has fired; the closure
\* holds the isAuthenticated of the render signIn was made in
PollInit ==
    /\ pollCount = 0
    /\ pollInterval = TRUE
    /\ pollChecks = {}
    /\ capturedAuthenticated \in BOOLEAN
    /\ connection \in {"pending", "connected"}
    /\ capturedAuthenticated => connection = "connected"
    /\ pollReloads = <<>>
    /\ CalendarAtRest
    /\ AuthAtRest

\* the wallet dialog is approved: the address is in the wallet's local storage
ConnectionCompletes ==
    /\ connection = "pending"
    /\ connection' = "connected"
    /\ UNCHANGED <<pollCount, pollInterval, pollChecks, capturedAuthenticated, pollReloads>>
    /\ UNCHANGED <<calendarVars, authVars>>

\* the wallet dialog is dismissed
ConnectionCancelled ==
    /\ connection = "pending"
    /\ connection' = "cancelled"
    /\ UNCHANGED <<pollCount, pollInterval, pollChecks, capturedAuthenticated, pollReloads>>
    /\ UNCHANGED <<calendarVars, authVars>>

\* the interval fires: the tick counts itself and awaits isConnected()
PollTick ==
    /\ pollInterval
    /\ pollCount < MaxTicks
    /\ Cardinality(pollChecks) < MaxPendingChecks
    /\ pollCount' = pollCount + 1
    /\ pollChecks' = pollChecks \cup {pollCount + 1}
    /\ UNCHANGED <<pollInterval, capturedAuthenticated, connection, pollReloads>>
    /\ UNCHANGED <<calendarVars, authVars>>

CheckOutcomes == {"resolves", "rejects"}

\* tick k from its await on. A rejected isConnected() ends the callback
\* there. A reload takes the page with the ticks still awaiting.
PollCheckSettles(k, outcome) ==
    /\ k \in pollChecks
    /\ LET connected == outcome = "resolves" /\ connection = "connected"
           address == connection = "connected"
       IN  IF outcome = "resolves" /\ connected /\ address /\ ~capturedAuthenticated
           THEN /\ pollInterval' = FALSE
                /\ pollReloads' = Append(pollReloads, connection)
                /\ pollChecks' = {}
           ELSE /\ pollInterval' = (pollInterval /\ ~(outcome = "resolves" /\ pollCount >= maxPolls))
                /\ pollChecks' = pollChecks \ {k}
                /\ UNCHANGED pollReloads
    /\ UNCHANGED <<pollCount, capturedAuthenticated, connection>>
    /\ UNCHANGED <<calendarVars, authVars>>

PollNext ==
    \/ ConnectionCompletes
    \/ ConnectionCancelled
    \/ PollTick
    \/ \E k \in 1..MaxTicks, outcome \in CheckOutcomes : PollCheckSettles(k, outcome)

PollSpec == PollInit /\ [][PollNext]_vars

\* C29: the polling interval is cleared at the latest in the 20th tick,
\* whatever the wallet connection does and also when an isConnected() check
\* rejects: once the first 20 ticks have run to their end the interval is
\* cleared; and polling asks for a reload only on a detected connection with
\* a stored address.
PollingTerminates ==
    /\ (pollCount >= maxPolls /\ pollChecks \cap (1..maxPolls) = {}) => ~pollInterval
    /\ \A r \in 1..Len(pollReloads) : pollReloads[r] = "connected"

====
